---- MODULE Spec2Model ----
(***************************************************************************)
(* Verification model of obsidian-auto-furigana.                           *)
(*                                                                         *)
(*  - Spec        : the Live Preview view plugin (furiganaLivePreviewMode) *)
(*                  of one editor: document, selection, viewport, IME      *)
(*                  composition state, and the DecorationSet it exposes.   *)
(*  - SpecSkip    : the same plugin on a fixed document while the note's   *)
(*                  frontmatter changes.                                   *)
(*  - SpecWidget  : one line scanned and RubyWidget.toDOM applied to its   *)
(*                  matches.                                               *)
(*  - SpecReading : the Reading Mode postprocessor applied to bounded DOM  *)
(*                  trees.                                                 *)
(*                                                                         *)
(* Text is a sequence of one-character strings.  The characters stand for  *)
(* the classes the source distinguishes:                                   *)
(*    "K" "J"  kanji (U+4E00-U+9FFF)      "k" "n"  kana (U+3040-U+30FF)    *)
(*    "x"      any other letter           " "      white space             *)
(*    "'"      the backtick (BT)          "~" "{" "}" "[" "]" "|" themselves *)
(* Offsets are 0-based and ranges half-open, as in the source.             *)
(***************************************************************************)
EXTENDS Integers, Sequences, FiniteSets, TLC

VARIABLES
  doc,            \* view.state.doc: sequence of lines
  sel,            \* view.state.selection.ranges[0]: [anchor, head]
  vp,             \* view.viewport: [from, to]
  composing,      \* view.composing
  frontmatter,    \* metadata cache entry "auto-furigana" of the shown file
  notationStyle,  \* the style the installed view plugin was created with
  tokenizer,      \* kuromojiInit.tokenizer: "null" or "ready"
  decorations,    \* the plugin's exposed DecorationSet (in add order)
  added,          \* builder.add calls made by buildDecorations in the latest step
  crashed,        \* the plugin instance threw and was deactivated
  rebuilt,        \* the latest step ran buildDecorations
  wsrc,           \* SpecWidget: the bracket, base and readings the line is written from
  wline,          \* SpecWidget: the line to scan
  wscanned,       \* SpecWidget: the line has been scanned and drawn
  wadds,          \* SpecWidget: the decorations of the line, in add order
  wdoms,          \* SpecWidget: toDOM of each decoration's widget
  wcode,          \* SpecCode: inlineBacktickRanges of the line
  wredraws,       \* SpecRedraw: redraws of the line after its first drawing
  dom,            \* SpecReading: the rendered element handed to the postprocessor
  settings,       \* SpecReading: plugin settings
  collected,      \* SpecReading: text nodes collected by the latest pass
  passes,         \* SpecReading: number of postprocessor passes run
  building,       \* kuromojiInit.building
  promises,       \* SpecInit: per caller, the promise initializeTokenizer returned
  builds,         \* SpecInit: per caller, the dictionary build it started
  xhrOpen,        \* SpecInit: XMLHttpRequest.prototype.open, "native" or "patched"
  origOpen,       \* SpecInit: per caller, the open function its patch captured
  pc,             \* SpecInit: position of onload
  registered,     \* SpecInit: what onload has registered
  failures,       \* SpecInit: the failures onload has caught
  userDoc,        \* SpecSettings: the document as the user's edits left it
  saves,          \* SpecSettings: saveSettings calls awaiting saveData: [prev, next]
  lpExt,          \* SpecSettings: content of lpCompartment in the open editor
  nCalls,         \* SpecSettings: saveSettings calls made
  nApplied,       \* SpecSettings: applySettingsChange runs
  manifest,       \* SpecDict: dict.manifest.json as bundled
  vault,          \* SpecDict: per dictionary file, the content in the dict directory
  vault0,         \* SpecDict: the content when ensureDictInstalled was called
  toInstall,      \* SpecDict: the install list
  dpc,            \* SpecDict: position of ensureDictInstalled
  idx,            \* SpecDict: index in toInstall of the file being installed
  ftry,           \* SpecDict: fetchWithFallback's current base and attempt
  fetched,        \* SpecDict: the files fetchWithFallback was called for
  requests,       \* SpecDict: the HTTP requests of the latest fetchWithFallback call
  writes,         \* SpecDict: the writeBinary calls made, in order
  derr            \* SpecDict: the error ensureDictInstalled threw

vars == <<doc, sel, vp, composing, frontmatter, notationStyle, tokenizer,
          decorations, added, crashed, rebuilt, wsrc, wline, wscanned, wadds, wdoms, wcode, wredraws,
          dom, settings, collected, passes,
          building, promises, builds, xhrOpen, origOpen, pc, registered, failures,
          userDoc, saves, lpExt, nCalls, nApplied,
          manifest, vault, vault0, toInstall, dpc, idx, ftry, fetched, requests, writes, derr>>

dictVars == <<manifest, vault, vault0, toInstall, dpc, idx, ftry, fetched, requests, writes, derr>>

saveVars == <<userDoc, saves, lpExt, nCalls, nApplied>>
initVars == <<building, promises, builds, xhrOpen, origOpen, pc, registered, failures>>
widgetVars == <<wsrc, wline, wscanned, wadds, wdoms, wcode, wredraws>>
readingVars == <<dom, settings, collected, passes>>

(***************************************************************************)
(* Bounds                                                                  *)
(***************************************************************************)
MaxLines == 2       \* lines of the edited document
MaxBase == 2        \* characters of the base of a manual notation
MaxReadings == 3    \* reading segments of a manual notation
MaxCallers == 3     \* callers of initializeTokenizer, onload being the first
MaxSaves == 3       \* saveSettings calls in one run
MaxCodeLine == 6    \* characters of a line scanned for inline code spans
MaxFenceLines == 3  \* lines of a document with fence markers of both kinds
MaxRedraws == 2     \* redraws of a line after its first drawing
MaxFiles == 3       \* dictionary files listed in the manifest
MaxBases == 2       \* download sources listed in the manifest

(***************************************************************************)
(* Character classes                                                       *)
(***************************************************************************)
Kanji == {"K", "J"}
Kana == {"k", "n"}
IsSpace(c) == c = " "
BT == "'"   \* the backtick character

Max(a, b) == IF a >= b THEN a ELSE b
Min(a, b) == IF a <= b THEN a ELSE b

RECURSIVE Concat(_)
Concat(ss) == IF ss = <<>> THEN <<>> ELSE Head(ss) \o Concat(Tail(ss))

\* AUTO_QUICK.test(text)
AUTO_QUICK(text) == \E i \in 1..Len(text) : text[i] \in Kanji \cup Kana

RECURSIVE trimStart(_)
trimStart(text) ==
  IF text # <<>> /\ IsSpace(Head(text)) THEN trimStart(Tail(text)) ELSE text

\* length of the run of character c at 0-based offset i of s (s[i] = c)
RECURSIVE RunOf(_, _, _)
RunOf(s, i, c) ==
  IF i + 1 < Len(s) /\ s[i + 2] = c THEN 1 + RunOf(s, i + 1, c) ELSE 1

\* the fence regex applied to text.trimStart(): a run of three or more
\* backticks or tildes followed by white space or the end of the line
lineTogglesFence(text) ==
  LET t == trimStart(text) IN
    /\ Len(t) >= 3
    /\ t[1] \in {BT, "~"}
    /\ LET r == RunOf(t, 0, t[1]) IN
         r >= 3 /\ (r = Len(t) \/ IsSpace(t[r + 1]))

\* an inner loop that takes any later backtick run as the closing one
FindCloseAnyRun(s, i, openerLen) ==
  IF \E j \in i..(Len(s) - 1) : s[j + 1] = BT
  THEN CHOOSE j \in i..(Len(s) - 1) :
         s[j + 1] = BT /\ \A k \in i..(j - 1) : s[k + 1] # BT
  ELSE -1

\* inner while loop of inlineBacktickRanges: offset of the closing run, or -1
RECURSIVE FindClose(_, _, _)
FindClose(s, i, openerLen) ==
  IF i >= Len(s) THEN -1
  ELSE IF s[i + 1] = BT
       THEN LET runLen == RunOf(s, i, BT) IN
              IF runLen = openerLen THEN i ELSE FindClose(s, i + runLen, openerLen)
       ELSE FindClose(s, i + 1, openerLen)

\* outer while loop of inlineBacktickRanges, from offset i
RECURSIVE ScanBackticks(_, _)
ScanBackticks(s, i) ==
  IF i >= Len(s) THEN <<>>
  ELSE IF s[i + 1] = BT
       THEN LET openerLen == RunOf(s, i, BT)
                closeStart == FindClose(s, i + openerLen, openerLen)
            IN IF closeStart # -1
               THEN << <<i, closeStart + openerLen>> >>
                      \o ScanBackticks(s, closeStart + openerLen)
               ELSE <<>>
       ELSE ScanBackticks(s, i + 1)

inlineBacktickRanges(lineText) == ScanBackticks(lineText, 0)

overlaps(aFrom, aTo, bFrom, bTo) == aFrom < bTo /\ bFrom < aTo

caretBuffer(pos, size) == <<pos - size, pos + size>>

(***************************************************************************)
(* Match patterns (regex.ts: getManualRegex, getAutoRegex)                 *)
(***************************************************************************)
NotationStyles == {"curly", "square", "none"}
Japanese == Kanji \cup Kana

OpenBracket(style) == IF style = "curly" THEN "{" ELSE "["
CloseBracket(style) == IF style = "curly" THEN "}" ELSE "]"

\* offset just after the run of characters of class C that starts at offset i
RECURSIVE RunEnd(_, _, _)
RunEnd(s, i, C) == IF i < Len(s) /\ s[i + 1] \in C THEN RunEnd(s, i + 1, C) ELSE i

\* the pipe-separated readings from offset i: <<offset after the last one, count>>
RECURSIVE ReadingsEnd(_, _, _)
ReadingsEnd(s, i, k) ==
  IF i < Len(s) /\ s[i + 1] = "|"
  THEN LET e == RunEnd(s, i + 1, Kana) IN
         IF e > i + 1 THEN ReadingsEnd(s, e, k + 1) ELSE <<i, k>>
  ELSE <<i, k>>

\* the manual pattern tried at offset i: the end offset of the match, or -1.
\* open bracket, base of one or more characters, one or more "|reading" of
\* kana, close bracket; several readings must be as many as the base is long
ManualMatchEnd(s, i, style) ==
  IF style \notin {"curly", "square"} \/ i >= Len(s) \/ s[i + 1] # OpenBracket(style)
  THEN -1
  ELSE LET baseEnd == RunEnd(s, i + 1, Japanese)
           r == ReadingsEnd(s, baseEnd, 0)
       IN IF /\ baseEnd > i + 1
             /\ r[2] >= 1
             /\ r[1] < Len(s)
             /\ s[r[1] + 1] = CloseBracket(style)
             /\ (r[2] = 1 \/ r[2] = baseEnd - (i + 1))
          THEN r[1] + 1
          ELSE -1

\* text.matchAll(manual): leftmost matches, scanning resumes after each match
RECURSIVE ManualFrom(_, _, _)
ManualFrom(s, i, style) ==
  IF i >= Len(s) THEN <<>>
  ELSE LET e == ManualMatchEnd(s, i, style) IN
         IF e # -1 THEN << <<i, e>> >> \o ManualFrom(s, e, style)
         ELSE ManualFrom(s, i + 1, style)

ManualMatches(text, style) == ManualFrom(text, 0, style)

\* text.matchAll(auto): the maximal runs of Japanese characters
RECURSIVE AutoFrom(_, _)
AutoFrom(s, i) ==
  IF i >= Len(s) THEN <<>>
  ELSE IF s[i + 1] \in Japanese
       THEN LET e == RunEnd(s, i, Japanese) IN << <<i, e>> >> \o AutoFrom(s, e)
       ELSE AutoFrom(s, i + 1)

AutoMatches(text) == AutoFrom(text, 0)

(***************************************************************************)
(* Segments (furiganaUtils.ts: getFuriganaSegmentsSync, makeRuby)          *)
(***************************************************************************)
\* the tokenizer: one token per maximal run of one character class; a kanji
\* run reads as one kana per kanji, a kana run reads as itself
KanjiReading(c) == IF c = "K" THEN "k" ELSE "n"

ClassOf(c) == IF c \in Kanji THEN Kanji ELSE IF c \in Kana THEN Kana ELSE {c}

RECURSIVE Tokenize(_, _)
Tokenize(s, i) ==
  IF i >= Len(s) THEN <<>>
  ELSE LET e == RunEnd(s, i, ClassOf(s[i + 1]))
           surface == SubSeq(s, i + 1, e)
           reading == IF s[i + 1] \in Kanji
                      THEN [j \in 1..Len(surface) |-> KanjiReading(surface[j])]
                      ELSE IF s[i + 1] \in Kana THEN surface ELSE <<>>
       IN << [surface |-> surface, reading |-> reading] >> \o Tokenize(s, e)

\* the readings of a manual notation, from the offset of the first "|"
RECURSIVE ReadingList(_, _)
ReadingList(s, i) ==
  IF i < Len(s) /\ s[i + 1] = "|"
  THEN LET e == RunEnd(s, i + 1, Kana) IN
         << SubSeq(s, i + 2, e) >> \o ReadingList(s, e)
  ELSE <<>>

IsManualNotation(text) ==
  \E st \in {"curly", "square"} : ManualMatchEnd(text, 0, st) = Len(text)

ManualBase(text) == SubSeq(text, 2, RunEnd(text, 1, Japanese))

\* one reading: the whole base is one chunk; otherwise one chunk per character
ManualSegments(text) ==
  LET base == ManualBase(text)
      readings == ReadingList(text, 1 + Len(base))
  IN IF Len(readings) = 1
     THEN << [kanji |-> <<base>>, furi |-> readings] >>
     ELSE << [kanji |-> [j \in 1..Len(base) |-> <<base[j]>>], furi |-> readings] >>

\* a token becomes one segment; a kana-only or unread token has no reading
TokenSegment(t) ==
  [kanji |-> <<t.surface>>,
   furi |-> IF t.reading = <<>> \/ (\A j \in 1..Len(t.surface) : t.surface[j] \in Kana)
            THEN <<>> ELSE <<t.reading>>]

AutoSegments(text, tok) ==
  IF tok = "ready"
  THEN LET ts == Tokenize(text, 0) IN [j \in 1..Len(ts) |-> TokenSegment(ts[j])]
  ELSE << [kanji |-> <<text>>, furi |-> <<>>] >>

getFuriganaSegmentsSync(text, tok) ==
  IF IsManualNotation(text) THEN ManualSegments(text) ELSE AutoSegments(text, tok)

\* DOM nodes: a text node carries a value, an element a tag and children
TextNode(value) == [type |-> "text", tag |-> "#text", value |-> value, kids |-> <<>>]

Element(tag, kids) == [type |-> "element", tag |-> tag, value |-> <<>>, kids |-> kids]

\* a ruby element: each base chunk followed by an rt holding its reading
makeRuby(kanji, furi) ==
  Element("ruby",
          Concat([i \in 1..Len(kanji) |->
                    << TextNode(kanji[i]),
                       Element("rt", IF i <= Len(furi) THEN << TextNode(furi[i]) >> ELSE <<>>) >>]))

(***************************************************************************)
(* RubyWidget                                                              *)
(***************************************************************************)
\* the kana test of toDOM: one or more characters, all kana
KanaOnly(k) == k # <<>> /\ \A j \in 1..Len(k) : k[j] \in Kana

\* a widget without the kana test
SegmentNodeNoKanaTest(seg) == makeRuby(seg.kanji, seg.furi)

\* a widget that draws only the first chunk of a kana segment
SegmentNodeFirstChunk(seg) ==
  LET allKana == \A j \in 1..Len(seg.kanji) : KanaOnly(seg.kanji[j]) IN
    IF allKana THEN TextNode(Head(seg.kanji)) ELSE makeRuby(seg.kanji, seg.furi)

\* the child appended to the span for one segment
SegmentNode(seg) ==
  LET allKana == \A j \in 1..Len(seg.kanji) : KanaOnly(seg.kanji[j]) IN
    IF allKana THEN TextNode(Concat(seg.kanji)) ELSE makeRuby(seg.kanji, seg.furi)

\* RubyWidget.toDOM: the children of the returned span, in order
toDOM(text, tok) ==
  LET segs == getFuriganaSegmentsSync(text, tok) IN
    [j \in 1..Len(segs) |-> SegmentNode(segs[j])]

\* RubyWidget.eq
WidgetEq(a, b) == a = b

(***************************************************************************)
(* Document geometry (CodeMirror Text: lines joined by one newline)        *)
(***************************************************************************)
RECURSIVE LineFrom(_, _)
LineFrom(d, n) == IF n = 1 THEN 0 ELSE LineFrom(d, n - 1) + Len(d[n - 1]) + 1

LineTo(d, n) == LineFrom(d, n) + Len(d[n])

DocLength(d) == LineTo(d, Len(d))

\* doc.lineAt(pos).number
lineAt(d, pos) == CHOOSE n \in 1..Len(d) : LineFrom(d, n) <= pos /\ pos <= LineTo(d, n)

(***************************************************************************)
(* buildDecorations                                                        *)
(***************************************************************************)
LineSamples ==
  { <<"K", "J">>,                       \* automatic match only
    <<"k", "{", "K", "|", "k", "}">>,   \* automatic match before a manual one
    <<BT, BT, BT>>,                     \* fence marker
    <<BT, "K", BT, "J">>,               \* inline code span, then text
    <<BT, "K">> }                       \* backtick run left unclosed, then text

\* the lines scanned under SpecWidget: manual notations in either bracket
\* style, well-formed or not, and plain Japanese text
BaseSamples == UNION { [1..n -> {"K", "J", "k"}] : n \in 1..MaxBase }
ReadingSamples == { <<"k">>, <<"k", "n">> }
ReadingSeqs == UNION { [1..n -> ReadingSamples] : n \in 1..MaxReadings }

Notation(style, base, readings) ==
  <<OpenBracket(style)>> \o base
    \o Concat([j \in 1..Len(readings) |-> <<"|">> \o readings[j]])
    \o <<CloseBracket(style)>>

WidgetSources ==
  { [bracket |-> st, base |-> b, readings |-> rs] :
      st \in {"curly", "square"}, b \in BaseSamples, rs \in ReadingSeqs }
    \cup { [bracket |-> "none", base |-> b, readings |-> <<>>] : b \in BaseSamples }

SourceLine(w) ==
  IF w.bracket = "none" THEN w.base ELSE Notation(w.bracket, w.base, w.readings)

WidgetLines == { SourceLine(w) : w \in WidgetSources }

\* the lines of the documents with fences of both kinds
FenceLines == { <<BT, BT, BT>>, <<"~", "~", "~">>, <<"K", "J">> }

\* the per-line functions of the walk, tabulated once per line
LineScan ==
  [t \in LineSamples \cup WidgetLines \cup FenceLines |->
     [toggles |-> lineTogglesFence(t),
      quick |-> AUTO_QUICK(t),
      codeSpans |-> inlineBacktickRanges(t),
      manual |-> [st \in NotationStyles |-> ManualMatches(t, st)],
      auto |-> AutoMatches(t)]]

\* a walk that takes the first visible line to be outside any fence
BootstrapFenceFromViewport(d, firstVisibleLine) == FALSE

\* fence state after the lines before firstVisibleLine
RECURSIVE BootstrapFence(_, _)
BootstrapFence(d, firstVisibleLine) ==
  IF firstVisibleLine <= 1 THEN FALSE
  ELSE LET before == BootstrapFence(d, firstVisibleLine - 1) IN
         IF LineScan[d[firstVisibleLine - 1]].toggles THEN ~before ELSE before

\* the no-decoration zones of the selection range
NoDecorZones(selection, comp) ==
  LET size == IF comp THEN 2 ELSE 1
      a == caretBuffer(selection.anchor, size)
      h == caretBuffer(selection.head, size)
  IN << <<Min(a[1], a[2]), Max(a[1], a[2])>>, <<Min(h[1], h[2]), Max(h[1], h[2])>> >>

\* hitsCode: the match overlaps an inline code span of the line
hitsCode(codeSpans, fromRel, toRel) ==
  \E j \in 1..Len(codeSpans) : overlaps(fromRel, toRel, codeSpans[j][1], codeSpans[j][2])

\* the match overlaps a no-decoration zone
nearCaret(noDecor, absFrom, absTo) ==
  \E j \in 1..Len(noDecor) : overlaps(absFrom, absTo, noDecor[j][1], noDecor[j][2])

\* the builder.add calls for the matches ms of one line, in match order
RECURSIVE MatchAdds(_, _, _, _)
MatchAdds(ms, text, lineFrom, noDecor) ==
  IF ms = <<>> THEN <<>>
  ELSE LET m == Head(ms) IN
    (IF \/ hitsCode(LineScan[text].codeSpans, m[1], m[2])
        \/ nearCaret(noDecor, lineFrom + m[1], lineFrom + m[2])
     THEN <<>>
     ELSE << [from |-> lineFrom + m[1], to |-> lineFrom + m[2],
              text |-> SubSeq(text, m[1] + 1, m[2])] >>)
      \o MatchAdds(Tail(ms), text, lineFrom, noDecor)

\* a scan that knows no manual notation
LineAddsAutomaticOnly(text, lineFrom, noDecor, style) ==
  MatchAdds(LineScan[text].auto, text, lineFrom, noDecor)

\* a scan that reads the disabled style as curly braces
LineAddsDisabledAsCurly(text, lineFrom, noDecor, style) ==
  MatchAdds(LineScan[text].manual[IF style = "none" THEN "curly" ELSE style],
            text, lineFrom, noDecor)
    \o MatchAdds(LineScan[text].auto, text, lineFrom, noDecor)

\* one visible line outside a fence: manual overrides, then automatic coverage
LineAdds(text, lineFrom, noDecor, style) ==
  MatchAdds(LineScan[text].manual[style], text, lineFrom, noDecor)
    \o MatchAdds(LineScan[text].auto, text, lineFrom, noDecor)

\* a walk that does not stop at the end of the viewport
RECURSIVE WalkLinesToEnd(_, _, _, _, _, _)
WalkLinesToEnd(d, n, insideBefore, visTo, noDecor, style) ==
  LET text == d[n]
      insideFence == IF LineScan[text].toggles THEN ~insideBefore ELSE insideBefore
      here == IF ~insideFence /\ LineScan[text].quick
              THEN LineAdds(text, LineFrom(d, n), noDecor, style)
              ELSE <<>>
  IN IF n >= Len(d)
     THEN here
     ELSE here \o WalkLinesToEnd(d, n + 1, insideFence, visTo, noDecor, style)

\* the walk over the visible lines, from line n with the fence state before it
RECURSIVE WalkLines(_, _, _, _, _, _)
WalkLines(d, n, insideBefore, visTo, noDecor, style) ==
  LET text == d[n]
      insideFence == IF LineScan[text].toggles THEN ~insideBefore ELSE insideBefore
      here == IF ~insideFence /\ LineScan[text].quick
              THEN LineAdds(text, LineFrom(d, n), noDecor, style)
              ELSE <<>>
  IN IF LineTo(d, n) >= visTo
     THEN here
     ELSE here \o WalkLines(d, n + 1, insideFence, visTo, noDecor, style)

\* every builder.add call buildDecorations would make, in call order
BuildCalls(d, selection, viewport, comp, style) ==
  IF ~(\E n \in 1..Len(d) : LineScan[d[n]].quick) THEN <<>>
  ELSE LET firstVisibleLine == lineAt(d, viewport.from) IN
         WalkLines(d, firstVisibleLine, BootstrapFence(d, firstVisibleLine),
                   viewport.to, NoDecorZones(selection, comp), style)

\* RangeSetBuilder.add throws when a range starts before the one added last
OutOfOrderAt(calls, j) == j > 1 /\ calls[j].from < calls[j - 1].from

BuilderThrows(calls) == \E j \in 1..Len(calls) : OutOfOrderAt(calls, j)

\* the calls actually made: up to and including the one that throws
CallsMade(calls) ==
  IF BuilderThrows(calls)
  THEN SubSeq(calls, 1, CHOOSE j \in 1..Len(calls) :
                          OutOfOrderAt(calls, j) /\ \A i \in 1..(j - 1) : ~OutOfOrderAt(calls, i))
  ELSE calls

buildDecorations(d, selection, viewport, comp, style) ==
  LET calls == BuildCalls(d, selection, viewport, comp, style) IN
    [added |-> CallsMade(calls), threw |-> BuilderThrows(calls)]

(***************************************************************************)
(* settings.ts                                                             *)
(***************************************************************************)
DEFAULT_SETTINGS == [readingMode |-> TRUE, editingMode |-> FALSE, notationStyle |-> "curly"]

(***************************************************************************)
(* skipOption.ts                                                           *)
(***************************************************************************)
\* values of the frontmatter key "auto-furigana": "nofm" is a file without
\* frontmatter, "unset" a frontmatter without the key
OFF == {"bool:false", "str:false", "str:off", "str:disabled"}
FrontmatterValues == OFF \cup {"nofm", "unset", "bool:true", "str:no"}

shouldSkipByPath(fm) == IF fm = "nofm" THEN FALSE ELSE fm \in OFF

(***************************************************************************)
(* The Live Preview view plugin of one editor                              *)
(***************************************************************************)
Positions(d) == 0..DocLength(d)

\* a caret, or a selection of one character
SelSpans == {0, 1}

Selections(d) ==
  { [anchor |-> a, head |-> h] :
      <<a, h>> \in { <<h + k, h>> : h \in Positions(d), k \in SelSpans } }

Viewports(d) ==
  { [from |-> LineFrom(d, f), to |-> LineTo(d, l)] :
      f \in 1..Len(d), l \in 1..Len(d) }

\* an update that computes the new set and leaves the older one exposed
RebuildKeepsOlder ==
  \E b \in {buildDecorations(doc', sel', vp', composing', notationStyle')} :
    /\ added' = b.added
    /\ crashed' = b.threw
    /\ decorations' = decorations
    /\ rebuilt' = TRUE

\* the constructor, and the assignment in update: run buildDecorations on the
\* view as it is after the step
Rebuild ==
  \E b \in {buildDecorations(doc', sel', vp', composing', notationStyle')} :
    /\ added' = b.added
    /\ crashed' = b.threw
    /\ decorations' = IF b.threw THEN <<>> ELSE b.added
    /\ rebuilt' = TRUE

NoRebuild ==
  /\ UNCHANGED <<decorations, crashed>>
  /\ added' = <<>>
  /\ rebuilt' = FALSE

\* update(u).  u.view and this.view are the same EditorView, so both sides of
\* the composing comparison read the view's current flag.
update(docChanged, selectionSet, viewportChanged, userEvent) ==
  LET uViewComposing == composing'
      thisViewComposing == composing'
  IN IF \/ docChanged
        \/ selectionSet
        \/ viewportChanged
        \/ userEvent
        \/ uViewComposing # thisViewComposing
     THEN Rebuild
     ELSE NoRebuild

ClampSel(d) ==
  [anchor |-> Min(sel.anchor, DocLength(d)), head |-> Min(sel.head, DocLength(d))]

ClampVp(d) ==
  [from |-> LineFrom(d, Min(lineAt(doc, vp.from), Len(d))),
   to |-> LineTo(d, Min(lineAt(doc, vp.to), Len(d)))]

Edits ==
  { [doc EXCEPT ![n] = l] : n \in 1..Len(doc), l \in LineSamples }
    \cup (IF Len(doc) < MaxLines THEN { Append(doc, l) : l \in LineSamples } ELSE {})
    \cup (IF Len(doc) > 1 THEN { SubSeq(doc, 1, Len(doc) - 1) } ELSE {})

\* the variables of the other surfaces
notLive == <<tokenizer, wsrc, wline, wscanned, wadds, wdoms, wcode, wredraws, dom, settings, collected, passes,
             initVars, saveVars, dictVars>>

\* the user edits the document.  A plugin instance that threw is deactivated:
\* no update reaches it again.
DocChange ==
  \E d \in Edits \ {doc} :
    /\ ~crashed
    /\ doc' = d
    /\ sel' = ClampSel(d)
    /\ vp' = ClampVp(d)
    /\ UNCHANGED <<composing, frontmatter, notationStyle>>
    /\ UNCHANGED notLive
    /\ update(TRUE, FALSE, FALSE, TRUE)

\* the user moves the caret or changes the selection
SelectionChange ==
  \E s \in Selections(doc) \ {sel} :
    /\ ~crashed
    /\ s.anchor \in Positions(doc)
    /\ sel' = s
    /\ UNCHANGED <<doc, vp, composing, frontmatter, notationStyle>>
    /\ UNCHANGED notLive
    /\ update(FALSE, TRUE, FALSE, FALSE)

\* the editor scrolls
ViewportChange ==
  \E v \in Viewports(doc) \ {vp} :
    /\ ~crashed
    /\ v.from <= v.to
    /\ vp' = v
    /\ UNCHANGED <<doc, sel, composing, frontmatter, notationStyle>>
    /\ UNCHANGED notLive
    /\ update(FALSE, FALSE, TRUE, FALSE)

\* an IME composition starts or ends
CompositionChange ==
  /\ ~crashed
  /\ composing' = ~composing
  /\ UNCHANGED <<doc, sel, vp, frontmatter, notationStyle>>
  /\ UNCHANGED notLive
  /\ update(FALSE, FALSE, FALSE, FALSE)

\* a transaction with an input or delete user event that changes nothing
InputTransaction ==
  /\ ~crashed
  /\ UNCHANGED <<doc, sel, vp, composing, frontmatter, notationStyle>>
  /\ UNCHANGED notLive
  /\ update(FALSE, FALSE, FALSE, TRUE)

\* the metadata cache reports changed frontmatter of the shown file
MetadataChanged ==
  \E v \in FrontmatterValues \ {frontmatter} :
    /\ frontmatter' = v
    /\ UNCHANGED <<doc, sel, vp, composing, notationStyle>>
    /\ UNCHANGED notLive
    /\ NoRebuild

IdleWidget ==
  /\ wsrc = [bracket |-> "none", base |-> <<>>, readings |-> <<>>]
  /\ wline = <<>>
  /\ wscanned = FALSE
  /\ wadds = <<>>
  /\ wdoms = <<>>
  /\ wcode = <<>>
  /\ wredraws = 0

IdleReading ==
  /\ dom = Element("div", <<>>)
  /\ settings = DEFAULT_SETTINGS
  /\ collected = {}
  /\ passes = 0

\* the extension viewPlugin returns: a view plugin class closed over the value
\* of its one parameter, whatever else the call passes
viewPlugin(args) == [installed |-> TRUE, notationStyle |-> args[1]]

\* the empty extension []
NoExtension == [installed |-> FALSE, notationStyle |-> "none"]

\* no settings update is under way; the editor shows the Live Preview plugin
IdleSave ==
  /\ userDoc = <<>>
  /\ saves = <<>>
  /\ lpExt = viewPlugin(<<"curly">>)
  /\ nCalls = 0
  /\ nApplied = 0

\* the dictionary files of the manifest, numbered in sorted name order
Files == 1..MaxFiles

\* the content of a file, as the validation sees it: whether it can be read,
\* and whether its SHA-256 and its byte size equal the manifest's
Missing == [present |-> FALSE, sha |-> FALSE, size |-> FALSE]

Contents == { [present |-> TRUE, sha |-> a, size |-> b] : a \in BOOLEAN, b \in BOOLEAN }

NoError == [kind |-> "none", base |-> 0, attempt |-> 0]

\* the dictionary is installed and the installer is not running
IdleDict ==
  /\ manifest = [overrides |-> FALSE, nSources |-> 1]
  /\ vault = [f \in Files |-> [present |-> TRUE, sha |-> TRUE, size |-> TRUE]]
  /\ vault0 = vault
  /\ toInstall = <<>>
  /\ dpc = "returned"
  /\ idx = 0
  /\ ftry = [base |-> 1, attempt |-> 0]
  /\ fetched = {}
  /\ requests = <<>>
  /\ writes = <<>>
  /\ derr = NoError

\* the callers of initializeTokenizer; caller 1 is onload
Callers == 1..MaxCallers

\* what onload registers after the two guarded awaits
Registrations == {"settingTab", "markdownPostProcessor", "editorExtension"}

\* the plugin has loaded and the tokenizer module is at rest
IdleInit ==
  /\ building = FALSE
  /\ promises = [c \in Callers |-> "idle"]
  /\ builds = [c \in Callers |-> "none"]
  /\ xhrOpen = "native"
  /\ origOpen = [c \in Callers |-> "unset"]
  /\ pc = "loaded"
  /\ registered = Registrations
  /\ failures = {}

\* the plugin is constructed on an editor that shows document d
InitLive(d) ==
  /\ doc = d
  /\ sel = [anchor |-> 0, head |-> 0]
  /\ vp = [from |-> 0, to |-> DocLength(doc)]
  /\ composing = FALSE
  /\ LET b == buildDecorations(doc, sel, vp, composing, "curly") IN
       /\ added = b.added
       /\ crashed = b.threw
       /\ decorations = IF b.threw THEN <<>> ELSE b.added
  /\ rebuilt = TRUE

Init ==
  /\ InitLive(<< <<"K", "J">> >>)
  /\ notationStyle = "curly"
  /\ frontmatter = "unset"
  /\ tokenizer = "ready"
  /\ IdleWidget
  /\ IdleReading
  /\ IdleInit
  /\ IdleSave
  /\ IdleDict

Next ==
  \/ DocChange
  \/ SelectionChange
  \/ ViewportChange
  \/ CompositionChange
  \/ InputTransaction

Spec == Init /\ [][Next]_vars

(***************************************************************************)
(* SpecSkip: an editor on a fixed document while the frontmatter changes   *)
(***************************************************************************)
InitSkip ==
  /\ InitLive(<< <<"K", "J">>, <<"K", "J">> >>)
  /\ notationStyle = "curly"
  /\ frontmatter \in FrontmatterValues
  /\ tokenizer = "ready"
  /\ IdleWidget
  /\ IdleReading
  /\ IdleInit
  /\ IdleSave
  /\ IdleDict

NextSkip ==
  \/ MetadataChanged
  \/ SelectionChange
  \/ ViewportChange
  \/ CompositionChange
  \/ InputTransaction

SpecSkip == InitSkip /\ [][NextSkip]_vars

(***************************************************************************)
(* Properties of the Live Preview view plugin                              *)
(***************************************************************************)
RangeOf(seq) == { seq[j] : j \in 1..Len(seq) }

\* the decorations of the exposed set and of the latest rebuild
LiveDecorations == RangeOf(decorations) \cup RangeOf(added)

\* fence state after line n, counted from line 1 of the document
InsideFenceAfter(d, n) ==
  Cardinality({ m \in 1..n : lineTogglesFence(d[m]) }) % 2 = 1

\* the lines the viewport intersects
VisibleLines == lineAt(doc, vp.from)..lineAt(doc, vp.to)

\* the buffer zone [p - size, p + size) of a selection endpoint overlaps [from, to)
ZoneSize == IF composing THEN 2 ELSE 1
InCaretZone(from, to) ==
  \E p \in {sel.anchor, sel.head} : from < p + ZoneSize /\ p - ZoneSize < to

\* the manual and automatic match spans of line n that lie outside inline code
MatchSpans(n) ==
  { m \in RangeOf(ManualMatches(doc[n], notationStyle)) \cup RangeOf(AutoMatches(doc[n])) :
      \A c \in RangeOf(inlineBacktickRanges(doc[n])) : ~(m[1] < c[2] /\ c[1] < m[2]) }

IsDecorated(n, m) ==
  \E d \in RangeOf(decorations) :
    d.from = LineFrom(doc, n) + m[1] /\ d.to = LineFrom(doc, n) + m[2]

\* C1: in every rebuild the replacement decorations are added in ascending
\* start order and no two of them overlap.
C1_AscendingNonOverlapping ==
  \A j \in 2..Len(added) :
    added[j - 1].from < added[j].from /\ added[j - 1].to <= added[j].from

\* C2: manual overrides take precedence: no automatic match is emitted for a
\* region that overlaps a manual-override match.
C2_ManualPrecedence ==
  \A a \in LiveDecorations : \A b \in LiveDecorations :
    (IsManualNotation(a.text) /\ ~IsManualNotation(b.text))
      => ~(a.from < b.to /\ b.from < a.to)

\* C3: after any rebuild no decoration overlaps the buffer zone of the
\* selection anchor or head (widened while composing), and every match of a
\* visible line that no zone overlaps is in the DecorationSet of that rebuild.
C3_CaretSafety ==
  rebuilt =>
    /\ \A d \in LiveDecorations : ~InCaretZone(d.from, d.to)
    /\ \A n \in VisibleLines : \A m \in MatchSpans(n) :
         (/\ ~InsideFenceAfter(doc, n)
          /\ ~InCaretZone(LineFrom(doc, n) + m[1], LineFrom(doc, n) + m[2]))
           => IsDecorated(n, m)

\* C4: each trigger event (document, selection, viewport, composition-state
\* change) delivered to update causes a rebuild of the DecorationSet.
C4_EveryTriggerRebuilds ==
  [][(doc' # doc \/ sel' # sel \/ vp' # vp \/ composing' # composing) => rebuilt']_vars

\* C5: when the skip flag is set for the shown document, every live-preview
\* rebuild yields an empty DecorationSet.
C5_SkipFlagHonoured ==
  (rebuilt /\ shouldSkipByPath(frontmatter)) => (decorations = <<>> /\ added = <<>>)

\* C6: a line is decorated only if the fence state counted from line 1 of the
\* document through that line is outside a fence, wherever the viewport starts.
C6_FenceIndependentOfScroll ==
  \A d \in LiveDecorations : ~InsideFenceAfter(doc, lineAt(doc, d.from))

\* the viewport starts below a fence opener and the fenced text stays undecorated
C6_Witness ==
  /\ rebuilt /\ ~crashed
  /\ vp.from > 0
  /\ \E n \in VisibleLines :
       /\ InsideFenceAfter(doc, n)
       /\ AUTO_QUICK(doc[n])
       /\ \E m \in 1..(lineAt(doc, vp.from) - 1) : lineTogglesFence(doc[m])
  /\ decorations = <<>>

\* a backtick of the line before offset rel that lies in no inline code span:
\* an opening run that is never closed
UnclosedBacktickBefore(text, rel) ==
  \E i \in 0..(rel - 1) :
    /\ text[i + 1] = BT
    /\ \A c \in RangeOf(inlineBacktickRanges(text)) : ~(c[1] <= i /\ i < c[2])

\* C13: an unterminated opening delimiter extends to the end of its unit:
\* no decoration lies after an unclosed backtick run of its line, and none
\* on a line after an unclosed fence opener.
C13_UnterminatedDelimiters ==
  \A d \in LiveDecorations :
    LET n == lineAt(doc, d.from) IN
      /\ ~UnclosedBacktickBefore(doc[n], d.from - LineFrom(doc, n))
      /\ ~InsideFenceAfter(doc, n)

\* C14: the exposed DecorationSet changes only in a step that rebuilds, and is
\* then the result of that rebuild, never an older one.
C14_LatestWins ==
  [][/\ (rebuilt' /\ ~crashed') => decorations' = added'
     /\ (rebuilt' /\ crashed') => decorations' = <<>>
     /\ ~rebuilt' => decorations' = decorations]_vars

\* a rebuild after the constructor's, with its own result exposed
C14_Witness ==
  /\ rebuilt /\ ~crashed
  /\ vp.from > 0
  /\ decorations # <<>>
  /\ decorations = added

\* C15: every decoration of a rebuild lies within a line that the viewport
\* intersects, each such line contributes each of its matches at most once,
\* and no line wholly after the viewport is scanned.
C15_ViewportBounded ==
  /\ \A d \in LiveDecorations :
       /\ lineAt(doc, d.from) \in VisibleLines
       /\ d.to <= LineTo(doc, lineAt(doc, d.from))
  /\ \A i \in 1..Len(added) : \A j \in 1..Len(added) :
       (added[i].from = added[j].from /\ added[i].to = added[j].to) => i = j

\* the viewport ends above a line with matches, which stays undecorated
C15_Witness ==
  /\ rebuilt /\ ~crashed
  /\ decorations # <<>>
  /\ lineAt(doc, vp.to) < Len(doc)
  /\ \E n \in (lineAt(doc, vp.to) + 1)..Len(doc) :
       /\ ~InsideFenceAfter(doc, n)
       /\ \E m \in MatchSpans(n) :
            ~InCaretZone(LineFrom(doc, n) + m[1], LineFrom(doc, n) + m[2])

(***************************************************************************)
(* SpecWidget: one line scanned and its widgets rendered                   *)
(***************************************************************************)
\* the line is scanned as by the walk of buildDecorations, with the caret far
\* away, and every widget is drawn
ScanLine ==
  /\ ~wscanned
  /\ wscanned' = TRUE
  /\ \E a \in { IF LineScan[wline].quick THEN LineAdds(wline, 0, <<>>, notationStyle) ELSE <<>> } :
       /\ wadds' = a
       /\ wdoms' = [j \in 1..Len(a) |-> toDOM(a[j].text, tokenizer)]
  /\ UNCHANGED <<doc, sel, vp, composing, frontmatter, notationStyle, tokenizer,
                 decorations, added, crashed, rebuilt, wsrc, wline, wcode, wredraws>>
  /\ UNCHANGED readingVars
  /\ UNCHANGED initVars
  /\ UNCHANGED saveVars
  /\ UNCHANGED dictVars

InitWidget ==
  /\ InitLive(<< <<"K", "J">> >>)
  /\ notationStyle \in NotationStyles
  /\ frontmatter = "unset"
  /\ tokenizer \in {"null", "ready"}
  /\ wsrc \in WidgetSources
  /\ wline = SourceLine(wsrc)
  /\ wscanned = FALSE
  /\ wadds = <<>>
  /\ wdoms = <<>>
  /\ wcode = <<>>
  /\ wredraws = 0
  /\ IdleReading
  /\ IdleInit
  /\ IdleSave
  /\ IdleDict

NextWidget == ScanLine

SpecWidget == InitWidget /\ [][NextWidget]_vars

\* the text left when the reading nodes (rt) of a rendered span are removed
RECURSIVE StripReadings(_)
StripReadings(nodes) ==
  Concat([j \in 1..Len(nodes) |->
            IF nodes[j].type = "text" THEN nodes[j].value
            ELSE IF nodes[j].tag = "rt" THEN <<>>
            ELSE StripReadings(nodes[j].kids)])

EntirelyKana(t) == t # <<>> /\ \A j \in 1..Len(t) : t[j] \in Kana

HasDecoration(from, to) ==
  \E j \in 1..Len(wadds) : wadds[j].from = from /\ wadds[j].to = to

\* the rendering of the decoration that covers the whole line
WholeLineDoms ==
  { wdoms[j] : j \in { i \in 1..Len(wadds) : wadds[i].from = 0 /\ wadds[i].to = Len(wline) } }

\* C7: a manual override with a base of n characters and k readings: k = 1
\* aligns the whole base to the one reading; k = n > 1 aligns base character i
\* with reading i; k > 1 and k # n is no manual match and its text is left to
\* automatic scanning.
C7_ManualSegments ==
  (wscanned /\ wsrc.bracket # "none" /\ notationStyle = wsrc.bracket) =>
    LET b == wsrc.base
        rs == wsrc.readings
    IN /\ Len(rs) = 1 =>
            /\ HasDecoration(0, Len(wline))
            /\ ~EntirelyKana(b) => WholeLineDoms = { << makeRuby(<<b>>, rs) >> }
       /\ (Len(rs) > 1 /\ Len(rs) = Len(b)) =>
            /\ HasDecoration(0, Len(wline))
            /\ ~EntirelyKana(b) =>
                 WholeLineDoms = { << makeRuby([i \in 1..Len(b) |-> <<b[i]>>], rs) >> }
       /\ (Len(rs) > 1 /\ Len(rs) # Len(b)) =>
            /\ \A j \in 1..Len(wadds) : wadds[j].text[1] \in Japanese
            /\ \A m \in RangeOf(AutoMatches(wline)) : HasDecoration(m[1], m[2])

\* a two-character base aligned with two readings
C7_Witness ==
  /\ wscanned
  /\ notationStyle = "curly"
  /\ wline = Notation("curly", <<"K", "J">>, << <<"k", "n">>, <<"k">> >>)
  /\ WholeLineDoms = { << makeRuby(<< <<"K">>, <<"J">> >>, << <<"k", "n">>, <<"k">> >>) >> }

\* C11: the disabled style yields no manual match; curly and square differ
\* only in the bracket pair that is recognized; the automatic matches are
\* the same under every style.
C11_NotationStyleSwitching ==
  wscanned =>
    /\ notationStyle = "none" => \A j \in 1..Len(wadds) : wadds[j].text[1] \in Japanese
    /\ \A j \in 1..Len(wadds) :
         wadds[j].text[1] \notin Japanese => wadds[j].text[1] = OpenBracket(notationStyle)
    /\ (/\ wsrc.bracket = notationStyle
        /\ (Len(wsrc.readings) = 1 \/ Len(wsrc.readings) = Len(wsrc.base)))
         => HasDecoration(0, Len(wline))
    /\ { <<wadds[j].from, wadds[j].to>> : j \in { i \in 1..Len(wadds) : wadds[i].text[1] \in Japanese } }
         = RangeOf(AutoMatches(wline))

\* a well-formed curly notation scanned with the style disabled: automatic matches only
C11_Witness ==
  /\ wscanned
  /\ notationStyle = "none"
  /\ wsrc.bracket = "curly"
  /\ Len(wsrc.readings) = 1
  /\ wadds # <<>>

\* C8: a segment whose base text is entirely kana is rendered as a plain text
\* node, never with a reading, even when a reading is supplied for it; every
\* other segment is rendered as a base/reading unit.
C8_KanaSkip ==
  \A j \in 1..Len(wadds) :
    LET segs == getFuriganaSegmentsSync(wadds[j].text, tokenizer) IN
      /\ Len(wdoms[j]) = Len(segs)
      /\ \A i \in 1..Len(segs) :
           IF EntirelyKana(Concat(segs[i].kanji))
           THEN wdoms[j][i] = TextNode(Concat(segs[i].kanji))
           ELSE wdoms[j][i] = makeRuby(segs[i].kanji, segs[i].furi)

\* a kana base with a supplied reading, drawn as plain text
C8_Witness ==
  \E j \in 1..Len(wadds) :
    LET segs == getFuriganaSegmentsSync(wadds[j].text, tokenizer) IN
      \E i \in 1..Len(segs) :
        /\ EntirelyKana(Concat(segs[i].kanji))
        /\ segs[i].furi # <<>>
        /\ wdoms[j][i].type = "text"

\* C9: stripping the reading nodes of a rendered match gives back its text:
\* the base of a manual match, the matched text of an automatic match, with
\* no base character dropped, duplicated or reordered.
C9_RoundTrip ==
  \A j \in 1..Len(wadds) :
    StripReadings(wdoms[j]) =
      IF wadds[j].text[1] \in Japanese THEN wadds[j].text ELSE wsrc.base

\* a manual match drawn as one unit of two base chunks, and an automatic match
C9_Witness ==
  /\ \E j \in 1..Len(wadds) :
       /\ wadds[j].text[1] \notin Japanese
       /\ \E i \in 1..Len(wdoms[j]) :
            Len(SelectSeq(wdoms[j][i].kids, LAMBDA k : k.tag = "rt")) = 2
  /\ \E j \in 1..Len(wadds) : wadds[j].text[1] \in Japanese /\ wdoms[j] # <<>>

(***************************************************************************)
(* furiganaUtils.ts: convertFurigana                                       *)
(***************************************************************************)
\* a segment with a reading becomes a ruby, any other segment a text node
ReadingNode(seg) ==
  IF seg.furi = <<>> \/ KanaOnly(Concat(seg.kanji))
  THEN TextNode(Concat(seg.kanji))
  ELSE makeRuby(seg.kanji, seg.furi)

MatchNodes(text, tok) ==
  LET segs == getFuriganaSegmentsSync(text, tok) IN
    [j \in 1..Len(segs) |-> ReadingNode(segs[j])]

\* offset of the next manual match or Japanese character at or after i
RECURSIVE PlainEnd(_, _, _)
PlainEnd(s, i, style) ==
  IF i >= Len(s) \/ s[i + 1] \in Japanese \/ ManualMatchEnd(s, i, style) # -1
  THEN i
  ELSE PlainEnd(s, i + 1, style)

\* manual matches first, automatic matches where no manual match lies, and
\* the text between matches as plain text nodes
RECURSIVE ConvertFrom(_, _, _, _)
ConvertFrom(s, i, style, tok) ==
  IF i >= Len(s) THEN <<>>
  ELSE LET m == ManualMatchEnd(s, i, style) IN
    IF m # -1
    THEN MatchNodes(SubSeq(s, i + 1, m), tok) \o ConvertFrom(s, m, style, tok)
    ELSE IF s[i + 1] \in Japanese
    THEN LET e == RunEnd(s, i, Japanese) IN
           MatchNodes(SubSeq(s, i + 1, e), tok) \o ConvertFrom(s, e, style, tok)
    ELSE LET e == PlainEnd(s, i + 1, style) IN
           << TextNode(SubSeq(s, i + 1, e)) >> \o ConvertFrom(s, e, style, tok)

\* the nodes that stand in place of a text node with this value
convertFurigana(value, style, tok) == ConvertFrom(value, 0, style, tok)

(***************************************************************************)
(* Reading Mode postprocessor                                              *)
(***************************************************************************)
TAGS == {"p", "h1", "h2", "h3", "h4", "h5", "h6", "ol", "ul", "table"}

isSkippableElement(el) == el.tag \in {"code", "pre", "script", "style", "ruby"}

RECURSIVE textContent(_)
textContent(node) ==
  IF node.type = "text" THEN node.value
  ELSE Concat([j \in 1..Len(node.kids) |-> textContent(node.kids[j])])

\* v.trim().length > 0
NonBlank(v) == \E j \in 1..Len(v) : ~IsSpace(v[j])

\* el.closest('ruby'): el or one of its ancestors is a ruby element
closestRuby(el, ancestors) ==
  el.tag = "ruby" \/ \E j \in 1..Len(ancestors) : ancestors[j] = "ruby"

\* the text nodes pushed to out, each with the tags of its ancestors
RECURSIVE collectTextNodes(_, _)
collectTextNodes(root, ancestors) ==
  IF root.type = "text"
  THEN IF NonBlank(root.value)
       THEN { [ancestors |-> ancestors, value |-> root.value] }
       ELSE {}
  ELSE IF isSkippableElement(root) \/ closestRuby(root, ancestors) THEN {}
  ELSE UNION { collectTextNodes(root.kids[j], Append(ancestors, root.tag)) :
                 j \in 1..Len(root.kids) }

\* the nodes in place of root once every collected text node below it is
\* replaced with its converted fragment
RECURSIVE replaceTextNodes(_, _, _, _)
replaceTextNodes(root, ancestors, style, tok) ==
  IF root.type = "text"
  THEN IF NonBlank(root.value) THEN convertFurigana(root.value, style, tok) ELSE <<root>>
  ELSE IF isSkippableElement(root) \/ closestRuby(root, ancestors) THEN <<root>>
  ELSE << [root EXCEPT !.kids =
             Concat([j \in 1..Len(root.kids) |->
                       replaceTextNodes(root.kids[j], Append(ancestors, root.tag), style, tok)])] >>

\* processBlock: the block afterwards
processBlock(blk, ancestors, style, tok) ==
  IF ~AUTO_QUICK(textContent(blk)) THEN blk
  ELSE Head(replaceTextNodes(blk, ancestors, style, tok))

\* processBlock: the text nodes it collects
processBlockNodes(blk, ancestors) ==
  IF ~AUTO_QUICK(textContent(blk)) THEN {} ELSE collectTextNodes(blk, ancestors)

\* el.querySelectorAll(TAGS) matches descendants of el, never el itself
IsBlock(node, isRoot) == node.type = "element" /\ ~isRoot /\ node.tag \in TAGS

\* the loop over the blocks in document order: the tree afterwards
RECURSIVE processBlocks(_, _, _, _, _)
processBlocks(node, ancestors, isRoot, style, tok) ==
  IF node.type = "text" THEN node
  ELSE LET here == IF IsBlock(node, isRoot)
                   THEN processBlock(node, ancestors, style, tok)
                   ELSE node
       IN [here EXCEPT !.kids =
             [j \in 1..Len(here.kids) |->
                processBlocks(here.kids[j], Append(ancestors, node.tag), FALSE, style, tok)]]

\* the loop over the blocks: every text node collected on the way
RECURSIVE blocksCollected(_, _, _, _, _)
blocksCollected(node, ancestors, isRoot, style, tok) ==
  IF node.type = "text" THEN {}
  ELSE LET here == IF IsBlock(node, isRoot)
                   THEN processBlock(node, ancestors, style, tok)
                   ELSE node
       IN (IF IsBlock(node, isRoot) THEN processBlockNodes(node, ancestors) ELSE {})
            \cup UNION { blocksCollected(here.kids[j], Append(ancestors, node.tag),
                                         FALSE, style, tok) :
                           j \in 1..Len(here.kids) }

\* rendered sections handed to the postprocessor
DomSamples ==
  { Element("div", << Element("p", << TextNode(<<"k", "{", "K", "|", "k", "}">>) >>) >>),
    Element("div", << Element("ul", << Element("li", <<
       Element("p", << TextNode(<<"K", "J">>) >>) >>) >>) >>),
    Element("div", << Element("p", << TextNode(<<"k", " ">>),
                                      Element("code", << TextNode(<<"K", "J">>) >>) >>) >>),
    Element("div", << Element("pre", << Element("code", << TextNode(<<"K", "J">>) >>) >>) >>),
    Element("div", << Element("pre", << Element("p", << TextNode(<<"K", "J">>) >>) >>) >>),
    Element("div", << Element("h1", << TextNode(<<"x">>) >>) >>) }

MaxPasses == 2      \* runs of the postprocessor over one section

\* the postprocessor runs on the section
Postprocess ==
  /\ passes < MaxPasses
  /\ passes' = passes + 1
  /\ IF ~settings.readingMode \/ shouldSkipByPath(frontmatter)
     THEN /\ dom' = dom
          /\ collected' = {}
     ELSE /\ dom' = processBlocks(dom, <<>>, TRUE, settings.notationStyle, tokenizer)
          /\ collected' = blocksCollected(dom, <<>>, TRUE, settings.notationStyle, tokenizer)
  /\ UNCHANGED <<doc, sel, vp, composing, frontmatter, notationStyle, tokenizer,
                 decorations, added, crashed, rebuilt, settings>>
  /\ UNCHANGED widgetVars
  /\ UNCHANGED initVars
  /\ UNCHANGED saveVars
  /\ UNCHANGED dictVars

InitReading ==
  /\ InitLive(<< <<"K", "J">> >>)
  /\ notationStyle = "curly"
  /\ frontmatter \in {"nofm", "unset", "bool:false"}
  /\ tokenizer \in {"null", "ready"}
  /\ IdleWidget
  /\ dom \in DomSamples
  /\ settings \in { [DEFAULT_SETTINGS EXCEPT !.readingMode = r, !.notationStyle = st] :
                       r \in BOOLEAN, st \in NotationStyles }
  /\ collected = {}
  /\ passes = 0
  /\ IdleInit
  /\ IdleSave
  /\ IdleDict

NextReading == Postprocess

SpecReading == InitReading /\ [][NextReading]_vars

Excluded == {"ruby", "code", "pre", "script", "style"}

\* C10: no text node inside a ruby subtree, nor inside code, pre, script or
\* style, is collected or replaced by any pass of the reading-mode engine.
C10_NothingCollectedInsideExcluded ==
  \A c \in collected : \A j \in 1..Len(c.ancestors) : c.ancestors[j] \notin Excluded

(***************************************************************************)
(* SpecCode: inlineBacktickRanges applied to one line                      *)
(***************************************************************************)
\* sequences over alphabet of length n
RECURSIVE SeqsOfLen(_, _)
SeqsOfLen(alphabet, n) ==
  IF n = 0 THEN { <<>> }
  ELSE { Append(t, ch) : t \in SeqsOfLen(alphabet, n - 1), ch \in alphabet }

\* the lines scanned: backticks and other characters
CodeLines == UNION { SeqsOfLen({BT, "x"}, n) : n \in 0..MaxCodeLine }

\* const codeSpans = inlineBacktickRanges(text)
ScanCode ==
  /\ ~wscanned
  /\ wscanned' = TRUE
  /\ wcode' = inlineBacktickRanges(wline)
  /\ UNCHANGED <<doc, sel, vp, composing, frontmatter, notationStyle, tokenizer,
                 decorations, added, crashed, rebuilt, wsrc, wline, wadds, wdoms, wredraws>>
  /\ UNCHANGED readingVars
  /\ UNCHANGED initVars
  /\ UNCHANGED saveVars
  /\ UNCHANGED dictVars

InitCode ==
  /\ InitLive(<< <<"K", "J">> >>)
  /\ notationStyle = "curly"
  /\ frontmatter = "unset"
  /\ tokenizer = "ready"
  /\ wsrc = [bracket |-> "none", base |-> <<>>, readings |-> <<>>]
  /\ wline \in CodeLines
  /\ wscanned = FALSE
  /\ wadds = <<>>
  /\ wdoms = <<>>
  /\ wcode = <<>>
  /\ wredraws = 0
  /\ IdleReading
  /\ IdleInit
  /\ IdleSave
  /\ IdleDict

NextCode == ScanCode

SpecCode == InitCode /\ [][NextCode]_vars

\* offset i of s starts a maximal run of exactly n backticks
MaximalRunAt(s, i, n) ==
  /\ i >= 0 /\ i + n <= Len(s)
  /\ \A k \in (i + 1)..(i + n) : s[k] = BT
  /\ (i = 0 \/ s[i] # BT)
  /\ (i + n = Len(s) \/ s[i + n + 1] # BT)

\* C24: every returned range starts at a maximal run of N backticks and ends
\* at the end of the first later maximal run of exactly N backticks; the
\* ranges are ascending and pairwise disjoint.
C24_EqualLengthRuns ==
  wscanned =>
    /\ \A j \in 1..Len(wcode) :
         \E n \in 1..Len(wline) :
           /\ MaximalRunAt(wline, wcode[j][1], n)
           /\ MaximalRunAt(wline, wcode[j][2] - n, n)
           /\ wcode[j][1] + n <= wcode[j][2] - n
           /\ \A i \in (wcode[j][1] + n)..(wcode[j][2] - n - 1) :
                ~MaximalRunAt(wline, i, n)
    /\ \A j \in 1..(Len(wcode) - 1) : wcode[j][2] <= wcode[j + 1][1]

\* a span whose single backticks enclose a run of two
C24_Witness ==
  /\ wscanned
  /\ wline = <<BT, "x", BT, BT, "x", BT>>
  /\ wcode = << <<0, 6>> >>

(***************************************************************************)
(* SpecFence: an editor on a document with backtick and tilde fence        *)
(* markers, scrolled and with the caret moved                              *)
(***************************************************************************)
FenceDocs == SeqsOfLen(FenceLines, MaxFenceLines)

InitFence ==
  /\ \E d \in FenceDocs : InitLive(d)
  /\ notationStyle = "curly"
  /\ frontmatter = "unset"
  /\ tokenizer = "ready"
  /\ IdleWidget
  /\ IdleReading
  /\ IdleInit
  /\ IdleSave
  /\ IdleDict

NextFence ==
  \/ SelectionChange
  \/ ViewportChange

SpecFence == InitFence /\ [][NextFence]_vars

\* the marker character of the line, or "none" when the line is no marker
FenceMarker(text) == IF lineTogglesFence(text) THEN trimStart(text)[1] ELSE "none"

\* the marker of the fence that is open after line n, when a fence is closed
\* only by a marker line of the kind that opened it; "none" outside a fence
RECURSIVE OpenFenceAfter(_, _)
OpenFenceAfter(d, n) ==
  IF n = 0 THEN "none"
  ELSE LET before == OpenFenceAfter(d, n - 1)
           here == FenceMarker(d[n])
       IN IF here = "none" THEN before
          ELSE IF before = "none" THEN here
          ELSE IF before = here THEN "none"
          ELSE before

\* C28: a fence is closed only by a marker line of the kind that opened it:
\* no decoration lies on a line inside a fence whose matching marker has not
\* yet occurred, whatever other marker lines occur in between.
C28_MatchingFenceMarker ==
  \A d \in LiveDecorations : OpenFenceAfter(doc, lineAt(doc, d.from)) = "none"

(***************************************************************************)
(* SpecInit: plugin load and the tokenizer module                          *)
(***************************************************************************)
\* getTokenizer: the module variable, null until a build has succeeded
getTokenizer == tokenizer

\* a call that starts a build whenever no tokenizer is set
initializeTokenizerUnguarded(tok, bld) ==
  IF tok # "null" THEN "resolved" ELSE "build"

\* initializeTokenizer, the guards before a build: resolve at once, wait for
\* the build in progress, or start the build
initializeTokenizer(tok, bld) ==
  IF tok # "null" THEN "resolved"
  ELSE IF bld THEN "polling"
  ELSE "build"

\* a guarded await that lets the failure escape
TryRethrow(outcome, next) ==
  IF outcome = "throws" THEN "failed" ELSE next

\* try { await ... } catch { console.warn }: onload goes on either way
TryCatch(outcome, next) == next

\* a cleanup that leaves the patch in place
restoreOpenSkipped(patched, orig, cur) == cur

\* unpatch?.(): the open function afterwards.  unpatch is set once the patch
\* is installed and writes back the function the patch captured
restoreOpen(patched, orig, cur) == IF patched THEN orig ELSE cur

\* caller c calls initializeTokenizer.  A call that builds sets building and
\* runs the promise executor: buildUrlMap may throw before the patch, the
\* builder may throw after it (both caught: cleanup and rejection), or the
\* build is started with XMLHttpRequest.prototype.open patched.
Call(c) ==
  /\ promises[c] = "idle"
  /\ \E first \in {initializeTokenizer(tokenizer, building)} :
       IF first # "build"
       THEN /\ promises' = [promises EXCEPT ![c] = first]
            /\ UNCHANGED <<building, builds, xhrOpen, origOpen>>
       ELSE \E outcome \in {"urlMapThrows", "builderThrows", "started"} :
              CASE outcome = "urlMapThrows" ->
                     /\ promises' = [promises EXCEPT ![c] = "rejected"]
                     /\ building' = FALSE
                     /\ xhrOpen' = restoreOpen(FALSE, origOpen[c], xhrOpen)
                     /\ UNCHANGED <<builds, origOpen>>
                [] outcome = "builderThrows" ->
                     /\ promises' = [promises EXCEPT ![c] = "rejected"]
                     /\ building' = FALSE
                     /\ origOpen' = [origOpen EXCEPT ![c] = xhrOpen]
                     /\ xhrOpen' = restoreOpen(TRUE, xhrOpen, "patched")
                     /\ UNCHANGED builds
                [] outcome = "started" ->
                     /\ promises' = [promises EXCEPT ![c] = "building"]
                     /\ building' = TRUE
                     /\ builds' = [builds EXCEPT ![c] = "running"]
                     /\ origOpen' = [origOpen EXCEPT ![c] = xhrOpen]
                     /\ xhrOpen' = "patched"
  /\ UNCHANGED tokenizer

notInit == <<doc, sel, vp, composing, frontmatter, notationStyle, decorations, added,
             crashed, rebuilt, widgetVars, readingVars, saveVars, dictVars>>

\* some other caller calls initializeTokenizer
CallInitialize ==
  \E c \in Callers \ {1} :
    /\ Call(c)
    /\ UNCHANGED <<pc, registered, failures>>
    /\ UNCHANGED notInit

\* kuromoji calls the build callback back, with an error or with a tokenizer
BuildCallback ==
  \E c \in Callers, err \in BOOLEAN :
    /\ builds[c] = "running"
    /\ builds' = [builds EXCEPT ![c] = "none"]
    /\ xhrOpen' = restoreOpen(TRUE, origOpen[c], xhrOpen)
    /\ UNCHANGED origOpen
    /\ building' = FALSE
    /\ IF err
       THEN /\ promises' = [promises EXCEPT ![c] = "rejected"]
            /\ UNCHANGED tokenizer
       ELSE /\ tokenizer' = "ready"
            /\ promises' = [promises EXCEPT ![c] = "resolved"]
    /\ UNCHANGED <<pc, registered, failures>>
    /\ UNCHANGED notInit

\* a dictionary request never completes: the callback of this build will
\* never be called
BuildStalls ==
  \E c \in Callers :
    /\ builds[c] = "running"
    /\ builds' = [builds EXCEPT ![c] = "stalled"]
    /\ UNCHANGED <<tokenizer, building, promises, xhrOpen, origOpen, pc, registered, failures>>
    /\ UNCHANGED notInit

\* the 50 ms interval of a waiting call finds the build over
PollTick ==
  \E c \in Callers :
    /\ promises[c] = "polling"
    /\ (getTokenizer # "null" \/ ~building)
    /\ promises' = [promises EXCEPT ![c] = "resolved"]
    /\ UNCHANGED <<tokenizer, building, builds, xhrOpen, origOpen, pc, registered, failures>>
    /\ UNCHANGED notInit

\* onload: await ensureDictInstalled inside try/catch
OnloadDict ==
  \E outcome \in {"ok", "throws"} :
    /\ pc = "dict"
    /\ pc' = TryCatch(outcome, "init")
    /\ failures' = IF outcome = "throws" THEN failures \cup {"dict"} ELSE failures
    /\ UNCHANGED <<tokenizer, building, promises, builds, xhrOpen, origOpen, registered>>
    /\ UNCHANGED notInit

\* onload: call initializeTokenizer and await its promise
OnloadInit ==
  /\ pc = "init"
  /\ Call(1)
  /\ pc' = "awaitInit"
  /\ UNCHANGED <<registered, failures>>
  /\ UNCHANGED notInit

\* onload: the awaited promise has settled; a rejection is caught
OnloadResume ==
  /\ pc = "awaitInit"
  /\ promises[1] \in {"resolved", "rejected"}
  /\ \E outcome \in {IF promises[1] = "rejected" THEN "throws" ELSE "ok"} :
       /\ pc' = TryCatch(outcome, "register")
       /\ failures' = IF outcome = "throws" THEN failures \cup {"init"} ELSE failures
  /\ UNCHANGED <<tokenizer, building, promises, builds, xhrOpen, origOpen, registered>>
  /\ UNCHANGED notInit

\* onload: settings tab, reading-mode postprocessor, Live Preview extension
OnloadRegister ==
  /\ pc = "register"
  /\ registered' = Registrations
  /\ pc' = "loaded"
  /\ UNCHANGED <<tokenizer, building, promises, builds, xhrOpen, origOpen, failures>>
  /\ UNCHANGED notInit

\* the plugin starts to load: settings are read, nothing is registered yet
InitInit ==
  /\ InitLive(<< <<"K", "J">> >>)
  /\ notationStyle = "curly"
  /\ frontmatter = "unset"
  /\ tokenizer = "null"
  /\ IdleWidget
  /\ IdleReading
  /\ building = FALSE
  /\ promises = [c \in Callers |-> "idle"]
  /\ builds = [c \in Callers |-> "none"]
  /\ xhrOpen = "native"
  /\ origOpen = [c \in Callers |-> "unset"]
  /\ pc = "dict"
  /\ registered = {}
  /\ failures = {}
  /\ IdleSave
  /\ IdleDict

NextInit ==
  \/ CallInitialize
  \/ BuildCallback
  \/ BuildStalls
  \/ PollTick
  \/ OnloadDict
  \/ OnloadInit
  \/ OnloadResume
  \/ OnloadRegister

SpecInit == InitInit /\ [][NextInit]_vars

\* the event loop runs every callback, timer and continuation that is ready
SpecInitFair ==
  /\ SpecInit
  /\ WF_vars(BuildCallback)
  /\ WF_vars(PollTick)
  /\ WF_vars(OnloadDict)
  /\ WF_vars(OnloadInit)
  /\ WF_vars(OnloadResume)
  /\ WF_vars(OnloadRegister)

Pending == {"building", "polling"}
Settled == {"resolved", "rejected"}

\* C16: a failure of the dictionary installation or of the tokenizer
\* initialization never ends onload: it goes on to register the settings
\* tab, the postprocessor and the Live Preview extension.
C16_FailuresNotFatal ==
  /\ pc # "failed"
  /\ pc = "loaded" => registered = Registrations
  /\ failures # {} => pc \in {"init", "awaitInit", "register", "loaded"}

\* both awaits failed, everything is registered, no tokenizer is available
C16_Witness ==
  /\ pc = "loaded"
  /\ failures = {"dict", "init"}
  /\ registered = Registrations
  /\ getTokenizer = "null"

\* C17: at most one dictionary build is in progress at any time, and a call
\* made while a build is in progress or after the tokenizer is set starts none.
C17_SingleBuild ==
  [][/\ Cardinality({ c \in Callers : builds'[c] # "none" }) <= 1
     /\ \A c \in Callers :
          (/\ promises[c] = "idle" /\ promises'[c] # "idle"
           /\ (building \/ tokenizer # "null"))
            => builds' = builds]_vars

\* a call made during a build waits, and one made after it resolved at once
C17_Witness ==
  \E c \in Callers, d \in Callers :
    /\ builds[c] = "running"
    /\ promises[d] = "polling"

\* C18: whenever a promise returned by initializeTokenizer has resolved,
\* getTokenizer() returns a tokenizer.
C18_ResolvedImpliesTokenizer ==
  \A c \in Callers : promises[c] = "resolved" => getTokenizer # "null"

\* C19: every call of initializeTokenizer eventually settles, and onload
\* eventually reaches its registrations.
C19_InitializationSettles ==
  /\ \A c \in Callers : (promises[c] \in Pending) ~> (promises[c] \in Settled)
  /\ <>(pc = "loaded")

\* C23: whenever no tokenizer build is in progress, XMLHttpRequest.prototype.open
\* is the original function.
C23_PatchScopedToBuild ==
  (~building /\ \A c \in Callers : builds[c] = "none") => xhrOpen = "native"

\* a patched attempt that failed and a later patched attempt that succeeded,
\* with open restored afterwards
C23_Witness ==
  /\ ~building
  /\ xhrOpen = "native"
  /\ \E c \in Callers, d \in Callers :
       /\ origOpen[c] # "unset" /\ promises[c] = "rejected"
       /\ origOpen[d] # "unset" /\ promises[d] = "resolved"

(***************************************************************************)
(* SpecRedraw: a line drawn, the tokenizer initialized again after a       *)
(* failed first attempt, and the line redrawn with equal widgets kept      *)
(***************************************************************************)
\* the lines drawn: plain Japanese text and one manual notation
RedrawSources ==
  { w \in WidgetSources : w.bracket = "none" }
    \cup { [bracket |-> "curly", base |-> <<"K">>, readings |-> << <<"k">> >>] }

\* a rebuild hands the editor new widgets for the line as it is now; the
\* editor keeps the DOM of an old widget whose eq answers true for the new
\* widget at the same range, and calls toDOM for the others
Redraw ==
  /\ wscanned
  /\ wredraws < MaxRedraws
  /\ wredraws' = wredraws + 1
  /\ \E w \in {wsrc, [bracket |-> "none", base |-> <<"K">>, readings |-> <<>>]} :
       /\ wsrc' = w
       /\ wline' = SourceLine(w)
  /\ \E a \in { IF LineScan[wline'].quick
                 THEN LineAdds(wline', 0, <<>>, notationStyle) ELSE <<>> } :
       /\ wadds' = a
       /\ wdoms' = [j \in 1..Len(a) |->
                      IF /\ j <= Len(wadds)
                         /\ wadds[j].from = a[j].from /\ wadds[j].to = a[j].to
                         /\ WidgetEq(wadds[j].text, a[j].text)
                      THEN wdoms[j]
                      ELSE toDOM(a[j].text, tokenizer)]
  /\ UNCHANGED <<doc, sel, vp, composing, frontmatter, notationStyle, tokenizer,
                 decorations, added, crashed, rebuilt, wscanned, wcode>>
  /\ UNCHANGED readingVars
  /\ UNCHANGED initVars
  /\ UNCHANGED saveVars
  /\ UNCHANGED dictVars

\* the plugin has loaded after initializeTokenizer rejected: everything is
\* registered and getTokenizer() returns null
InitRedraw ==
  /\ InitLive(<< <<"K", "J">> >>)
  /\ notationStyle = "curly"
  /\ frontmatter = "unset"
  /\ tokenizer = "null"
  /\ wsrc \in RedrawSources
  /\ wline = SourceLine(wsrc)
  /\ wscanned = FALSE
  /\ wadds = <<>>
  /\ wdoms = <<>>
  /\ wcode = <<>>
  /\ wredraws = 0
  /\ IdleReading
  /\ building = FALSE
  /\ promises = [c \in Callers |-> IF c = 1 THEN "rejected" ELSE "idle"]
  /\ builds = [c \in Callers |-> "none"]
  /\ xhrOpen = "native"
  /\ origOpen = [c \in Callers |-> "unset"]
  /\ pc = "loaded"
  /\ registered = Registrations
  /\ failures = {"init"}
  /\ IdleSave
  /\ IdleDict

NextRedraw ==
  \/ ScanLine
  \/ Redraw
  \/ CallInitialize
  \/ BuildCallback
  \/ BuildStalls
  \/ PollTick

SpecRedraw == InitRedraw /\ [][NextRedraw]_vars

Patches ==
  { [key |-> k, flag |-> b, style |-> "none"] :
      k \in {"readingMode", "editingMode"}, b \in BOOLEAN }
    \cup { [key |-> "notationStyle", flag |-> FALSE, style |-> st] : st \in NotationStyles }

\* { ...this.settings, ...patch }
Merge(cur, patch) ==
  CASE patch.key = "readingMode" -> [cur EXCEPT !.readingMode = patch.flag]
    [] patch.key = "editingMode" -> [cur EXCEPT !.editingMode = patch.flag]
    [] patch.key = "notationStyle" -> [cur EXCEPT !.notationStyle = patch.style]

\* a reconfiguration that also rewrites the document
ReconfigureRewriting(ext) == [changes |-> << <<"x">> >>, effects |-> ext]

\* the transaction spec { effects: this.lpCompartment.reconfigure(ext) }
ReconfigureTransaction(ext) == [changes |-> <<>>, effects |-> ext]

\* cm.dispatch: the document after the transaction's changes
Dispatch(d, tr) == IF tr.changes = <<>> THEN d ELSE tr.changes

\* the style the scanner works with for the value the plugin was created
\* with: a value that is no notation style selects no bracket pair
ScannerStyle(v) == IF v \in NotationStyles THEN v ELSE "none"

\* the section the Reading Mode view renders
ReadingSource ==
  Element("div", << Element("p", << TextNode(<<"k", "{", "K", "|", "k", "}">>) >>) >>)

\* the documents the user switches between
SettingsDocs ==
  { << <<"K", "J">>, <<"K", "J">> >>,
    << <<"K", "J">>, <<"{", "K", "|", "k", "}">> >> }

\* applySettingsChange(prev, next): reconfigure the compartment of the open
\* editor, which replaces the plugin instance, and rerender the Reading Mode
\* view when the toggle or the notation style changed
applySettingsChange(prev, next) ==
  LET ext == IF next.editingMode
             THEN viewPlugin(<<"app", next.notationStyle>>)
             ELSE NoExtension
      tr == ReconfigureTransaction(ext)
      needsRefresh == prev.readingMode # next.readingMode
                        \/ prev.notationStyle # next.notationStyle
  IN /\ doc' = Dispatch(doc, tr)
     /\ sel' = ClampSel(doc')
     /\ vp' = ClampVp(doc')
     /\ lpExt' = tr.effects
     /\ UNCHANGED composing
     /\ IF ext.installed
        THEN /\ notationStyle' = ScannerStyle(ext.notationStyle)
             /\ Rebuild
        ELSE /\ UNCHANGED notationStyle
             /\ decorations' = <<>>
             /\ added' = <<>>
             /\ crashed' = FALSE
             /\ rebuilt' = FALSE
     /\ IF needsRefresh
        THEN /\ passes' = passes + 1
             /\ IF ~settings'.readingMode \/ shouldSkipByPath(frontmatter)
                THEN /\ dom' = ReadingSource
                     /\ collected' = {}
                ELSE /\ dom' = processBlocks(ReadingSource, <<>>, TRUE,
                                             settings'.notationStyle, tokenizer)
                     /\ collected' = blocksCollected(ReadingSource, <<>>, TRUE,
                                                     settings'.notationStyle, tokenizer)
        ELSE UNCHANGED <<dom, collected, passes>>

notSettings == <<frontmatter, tokenizer, widgetVars, initVars, dictVars>>

\* saveSettings(patch) up to its await: the in-memory settings are replaced
\* and saveData is started
SaveSettings ==
  \E patch \in Patches :
    /\ nCalls < MaxSaves
    /\ nCalls' = nCalls + 1
    /\ \E next \in {Merge(settings, patch)} :
         /\ saves' = Append(saves, [prev |-> settings, next |-> next])
         /\ settings' = next
    /\ UNCHANGED <<doc, sel, vp, composing, notationStyle, decorations, added, crashed,
                   rebuilt, dom, collected, passes, userDoc, lpExt, nApplied>>
    /\ UNCHANGED notSettings

\* saveData of one of the calls under way completes, and that call goes on
\* to applySettingsChange with the prev and next it captured
SaveDataDone ==
  \E i \in 1..Len(saves) :
    /\ saves' = SubSeq(saves, 1, i - 1) \o SubSeq(saves, i + 1, Len(saves))
    /\ nApplied' = nApplied + 1
    /\ UNCHANGED <<settings, userDoc, nCalls>>
    /\ applySettingsChange(saves[i].prev, saves[i].next)
    /\ UNCHANGED notSettings

\* the user replaces the text of the open editor; an installed plugin that
\* has not thrown receives the update
UserEdit ==
  \E d \in SettingsDocs \ {doc} :
    /\ doc' = d
    /\ userDoc' = d
    /\ sel' = ClampSel(d)
    /\ vp' = ClampVp(d)
    /\ UNCHANGED <<composing, notationStyle>>
    /\ IF lpExt.installed /\ ~crashed
       THEN update(TRUE, FALSE, FALSE, TRUE)
       ELSE NoRebuild
    /\ UNCHANGED <<settings, dom, collected, passes, saves, lpExt, nCalls, nApplied>>
    /\ UNCHANGED notSettings

\* after onload with the default settings: the compartment holds []
InitSettings ==
  /\ doc = << <<"K", "J">>, <<"K", "J">> >>
  /\ userDoc = doc
  /\ sel = [anchor |-> 0, head |-> 0]
  /\ vp = [from |-> 0, to |-> DocLength(doc)]
  /\ composing = FALSE
  /\ notationStyle = "curly"
  /\ frontmatter = "unset"
  /\ tokenizer = "ready"
  /\ decorations = <<>>
  /\ added = <<>>
  /\ crashed = FALSE
  /\ rebuilt = FALSE
  /\ settings = DEFAULT_SETTINGS
  /\ lpExt = NoExtension
  /\ dom = processBlocks(ReadingSource, <<>>, TRUE, settings.notationStyle, tokenizer)
  /\ collected = {}
  /\ passes = 0
  /\ saves = <<>>
  /\ nCalls = 0
  /\ nApplied = 0
  /\ IdleWidget
  /\ IdleInit
  /\ IdleDict

NextSettings ==
  \/ SaveSettings
  \/ SaveDataDone
  \/ UserEdit

SpecSettings == InitSettings /\ [][NextSettings]_vars

\* C12: no engine operation changes the source text: after any sequence of
\* settings changes, rebuilds and rerenders the document is what the user's
\* edits produced.
C12_SourceNeverMutated == doc = userDoc

\* settings were applied, the plugin decorates, and the text is the user's edit
C12_Witness ==
  /\ nApplied > 0
  /\ passes > 0
  /\ lpExt.installed
  /\ decorations # <<>>
  /\ userDoc = << <<"K", "J">>, <<"{", "K", "|", "k", "}">> >>
  /\ doc = userDoc

\* C20: every saveSettings call is reacted to exactly once, and once all
\* calls have completed the Live Preview extension of the open editor is
\* installed exactly when editingMode is true in the in-memory settings.
C20_ExtensionFollowsSettings ==
  /\ nApplied + Len(saves) = nCalls
  /\ saves = <<>> => (lpExt.installed <=> settings.editingMode)

\* the Reading Mode view shows what the postprocessor makes of the section
\* under the settings as they are now
ReadingViewCurrent ==
  dom = IF ~settings.readingMode \/ shouldSkipByPath(frontmatter)
        THEN ReadingSource
        ELSE processBlocks(ReadingSource, <<>>, TRUE, settings.notationStyle, tokenizer)

\* C21: the notation style of the settings reaches both renderers: once no
\* settings update is under way, the Reading Mode view is rendered with the
\* current settings.notationStyle and an installed Live Preview extension
\* was created with the current settings.notationStyle.
C21_StyleForwarded ==
  saves = <<>> =>
    /\ ReadingViewCurrent
    /\ lpExt.installed => lpExt.notationStyle = settings.notationStyle

(***************************************************************************)
(* SpecDict: one run of ensureDictInstalled                                *)
(***************************************************************************)
PER_BASE_RETRIES == 2

\* the manifests: the generator writes the sources list, an _overrides
\* object when the previous manifest had one, and one entry per file
Manifests == [overrides : BOOLEAN, nSources : 0..MaxBases]

\* isValidManifest: every object-valued key other than sources must carry a
\* string sha256 and a number bytes; an _overrides object does not
isValidManifest(m) == ~m.overrides

\* sizeOk && shaOk
Matches(c) == c.present /\ c.size /\ c.sha

\* the first loop: the files from f on that are missing or fail validation
RECURSIVE ToInstallFrom(_, _)
ToInstallFrom(v, f) ==
  IF f > MaxFiles THEN <<>>
  ELSE (IF Matches(v[f]) THEN <<>> ELSE <<f>>) \o ToInstallFrom(v, f + 1)

\* a verification that compares the checksum only
verifyChecksumOnly(data) == IF ~data.sha THEN "checksum" ELSE "ok"

\* the two checks on downloaded data before writeBinary
verifyDownload(data) ==
  IF ~data.sha THEN "checksum"
  ELSE IF ~data.size THEN "size"
  ELSE "ok"

\* a loop that goes to the next base after one failed attempt
NextTryNoRetry(t) == [base |-> t.base + 1, attempt |-> 0]

\* the two loops of fetchWithFallback: the try after a failed one
NextTry(t) ==
  IF t.attempt < PER_BASE_RETRIES
  THEN [base |-> t.base, attempt |-> t.attempt + 1]
  ELSE [base |-> t.base + 1, attempt |-> 0]

\* an install loop that logs the failure and goes on with the next file
InstallCatchContinue(i, n) ==
  IF i < n THEN [dpc |-> "install", idx |-> i + 1] ELSE [dpc |-> "returned", idx |-> i]

\* catch (e) { console.error(...); throw e }: the run ends at file i of n
InstallCatch(i, n) == [dpc |-> "thrown", idx |-> i]

notDict == <<doc, sel, vp, composing, frontmatter, notationStyle, tokenizer, decorations,
             added, crashed, rebuilt, widgetVars, readingVars, initVars, saveVars>>

\* ensureDictInstalled up to the install loop: manifest check, dict
\* directory, validation of the files present
EnsureStart ==
  /\ dpc = "start"
  /\ IF ~isValidManifest(manifest)
     THEN /\ dpc' = "returned"
          /\ UNCHANGED <<toInstall, idx, derr>>
     ELSE \E mkdirOk \in BOOLEAN :
            IF ~mkdirOk
            THEN /\ dpc' = "thrown"
                 /\ derr' = [kind |-> "mkdir", base |-> 0, attempt |-> 0]
                 /\ UNCHANGED <<toInstall, idx>>
            ELSE /\ toInstall' = ToInstallFrom(vault, 1)
                 /\ UNCHANGED derr
                 /\ IF toInstall' = <<>> \/ manifest.nSources = 0
                    THEN /\ dpc' = "returned"
                         /\ UNCHANGED idx
                    ELSE /\ dpc' = "install"
                         /\ idx' = 1
  /\ UNCHANGED <<manifest, vault, vault0, ftry, fetched, requests, writes>>
  /\ UNCHANGED notDict

\* the requests of the running fetchWithFallback call: none when the call
\* is at its first try
RequestsSoFar == IF ftry = [base |-> 1, attempt |-> 0] THEN <<>> ELSE requests

\* one HTTP attempt for the file being installed fails (error, timeout or no
\* binary data): the next try, or fetchWithFallback throws the last error
AttemptFails ==
  /\ dpc = "install"
  /\ fetched' = fetched \cup {toInstall[idx]}
  /\ requests' = Append(RequestsSoFar, [file |-> toInstall[idx], base |-> ftry.base,
                                        attempt |-> ftry.attempt, ok |-> FALSE])
  /\ \E t \in {NextTry(ftry)} :
       IF t.base > manifest.nSources
       THEN \E after \in {InstallCatch(idx, Len(toInstall))} :
              /\ dpc' = after.dpc
              /\ idx' = after.idx
              /\ ftry' = [base |-> 1, attempt |-> 0]
              /\ derr' = [kind |-> "fetch", base |-> ftry.base, attempt |-> ftry.attempt]
       ELSE /\ ftry' = t
            /\ UNCHANGED <<dpc, idx, derr>>
  /\ UNCHANGED <<manifest, vault, vault0, toInstall, writes>>
  /\ UNCHANGED notDict

\* one HTTP attempt returns data: fetchWithFallback returns it, the data is
\* verified and handed to writeBinary (which may throw, leaving the file as
\* it was), and the loop goes on or the run ends
AttemptSucceeds ==
  \E data \in Contents :
    /\ dpc = "install"
    /\ fetched' = fetched \cup {toInstall[idx]}
    /\ requests' = Append(RequestsSoFar, [file |-> toInstall[idx], base |-> ftry.base,
                                          attempt |-> ftry.attempt, ok |-> TRUE])
    /\ ftry' = [base |-> 1, attempt |-> 0]
    /\ \E v \in {verifyDownload(data)}, writeOk \in BOOLEAN :
         IF v = "ok" /\ writeOk
         THEN /\ vault' = [vault EXCEPT ![toInstall[idx]] = data]
              /\ writes' = Append(writes, [file |-> toInstall[idx], data |-> data])
              /\ UNCHANGED derr
              /\ IF idx < Len(toInstall)
                 THEN /\ idx' = idx + 1
                      /\ UNCHANGED dpc
                 ELSE /\ dpc' = "returned"
                      /\ UNCHANGED idx
         ELSE IF v = "ok"
         THEN \E after \in {InstallCatch(idx, Len(toInstall))} :
                /\ dpc' = after.dpc
                /\ idx' = after.idx
                /\ derr' = [kind |-> "write", base |-> ftry.base, attempt |-> ftry.attempt]
                /\ writes' = Append(writes, [file |-> toInstall[idx], data |-> data])
                /\ UNCHANGED vault
         ELSE \E after \in {InstallCatch(idx, Len(toInstall))} :
                /\ dpc' = after.dpc
                /\ idx' = after.idx
                /\ derr' = [kind |-> v, base |-> ftry.base, attempt |-> ftry.attempt]
                /\ UNCHANGED <<vault, writes>>
    /\ UNCHANGED <<manifest, vault0, toInstall>>
    /\ UNCHANGED notDict

\* ensureDictInstalled is called with some manifest and some dict directory
InitDict ==
  /\ InitLive(<< <<"K", "J">> >>)
  /\ notationStyle = "curly"
  /\ frontmatter = "unset"
  /\ tokenizer = "null"
  /\ IdleWidget
  /\ IdleReading
  /\ IdleInit
  /\ IdleSave
  /\ manifest \in Manifests
  /\ vault \in [Files -> Contents \cup {Missing}]
  /\ vault0 = vault
  /\ toInstall = <<>>
  /\ dpc = "start"
  /\ idx = 0
  /\ ftry = [base |-> 1, attempt |-> 0]
  /\ fetched = {}
  /\ requests = <<>>
  /\ writes = <<>>
  /\ derr = NoError

NextDict ==
  \/ EnsureStart
  \/ AttemptFails
  \/ AttemptSucceeds

SpecDict == InitDict /\ [][NextDict]_vars

\* the k-th try of the two nested loops: bases in listed order, attempts 0
\* to PER_BASE_RETRIES on each
TryAt(k) ==
  [base |-> ((k - 1) \div (PER_BASE_RETRIES + 1)) + 1,
   attempt |-> (k - 1) % (PER_BASE_RETRIES + 1)]

\* C26: the requests of a fetchWithFallback call go through the bases in
\* listed order with attempts 0..PER_BASE_RETRIES on each and the next base
\* only after the last attempt on the current one; no request follows a
\* successful one; and the call throws only when every attempt on every
\* base has failed, the error being the one of the last attempt.
C26_FetchOrderAndRetries ==
  LET r == requests IN
    /\ \A k \in 1..Len(r) :
         /\ r[k].file = r[1].file
         /\ r[k].base = TryAt(k).base
         /\ r[k].attempt = TryAt(k).attempt
         /\ r[k].base <= manifest.nSources
         /\ r[k].attempt <= PER_BASE_RETRIES
         /\ k < Len(r) => ~r[k].ok
    /\ (dpc = "thrown" /\ derr.kind = "fetch") =>
         /\ Len(r) = manifest.nSources * (PER_BASE_RETRIES + 1)
         /\ \A k \in 1..Len(r) : ~r[k].ok
         /\ derr.base = r[Len(r)].base
         /\ derr.attempt = r[Len(r)].attempt

\* C26 witness: with two bases listed, three attempts on the first base
\* failed and the second attempt on the second base delivered the file.
C26_Witness ==
  /\ manifest.nSources = 2
  /\ Len(requests) = 5
  /\ \A k \in 1..4 : ~requests[k].ok
  /\ requests[5] = [file |-> 1, base |-> 2, attempt |-> 1, ok |-> TRUE]

C27_StopsOnFirstFailure ==
  derr.kind \in {"fetch", "checksum", "size", "write"} =>
    /\ dpc = "thrown"
    /\ \A j \in (idx + 1)..Len(toInstall) :
         /\ toInstall[j] \notin fetched
         /\ \A k \in 1..Len(writes) : writes[k].file # toInstall[j]
         /\ vault[toInstall[j]] = vault0[toInstall[j]]
    /\ \A j \in 1..(idx - 1) :
         /\ \E k \in 1..Len(writes) : writes[k].file = toInstall[j]
         /\ Matches(vault[toInstall[j]])

\* C27 witness: three files were to be installed, the first was written,
\* the download of the second had a wrong size, and the third is still
\* missing.
C27_Witness ==
  /\ toInstall = <<1, 2, 3>>
  /\ dpc = "thrown"
  /\ derr.kind = "size"
  /\ idx = 2
  /\ fetched = {1, 2}
  /\ Matches(vault[1])
  /\ ~Matches(vault0[1])
  /\ vault[3] = Missing

\* C22: whenever ensureDictInstalled has returned normally, every file of
\* the manifest is present in the dict directory with the manifest's byte
\* size and SHA-256.
C22_ReturnMeansInstalled ==
  dpc = "returned" => \A f \in Files : Matches(vault[f])

====
